---- MODULE Spec2Model ----
(***************************************************************************)
(* lplrs2018: fluid reward system (Arduino Mega 2560 sketch).              *)
(*                                                                         *)
(* The model follows src/lplrs2018.ino.  Every interrupt service routine   *)
(* is one action: the AVR core clears the global interrupt enable bit on   *)
(* entry to an ISR and no handler of the sketch sets it again, so handlers *)
(* do not nest.  loop() runs in the cooperative context and is modelled    *)
(* one statement at a time (pc), so that handlers interleave with it.      *)
(*                                                                         *)
(* In Spec, SpecDrain and FairSpec the timer counters (TCNTn) and compare  *)
(* flags (TIFRn) are abstracted: a compare-match handler may run whenever  *)
(* its enable bit is set in the TIMSKn register, and the counters and      *)
(* flags keep their initial values.  The TIMSKn registers are modelled as  *)
(* the set of the enable bits that are 1.  The one timing fact kept is     *)
(* that the period of timer1 (1 s) is longer than any calibration pulse    *)
(* (see TIMER1_COMPB).  SpecHold lets timer4 count and SpecPulse lets      *)
(* timer1 and timer5 count; there the handlers run on the compare flags.   *)
(* SpecDebounce runs the settle checks on the compare flags of timer2.     *)
(* SpecNested is the sketch with handlers that may preempt one another.    *)
(*                                                                         *)
(* INT3 and INT4 are modelled together with the raw edge that raises them: *)
(* their handlers read no state and only set an enable bit, and the states *)
(* reached are those of the model with the flags INTF3 and INTF4 in which  *)
(* neither is pending.  INT5 has its pending flag (INTF5), because the     *)
(* calibration handlers change the level of the pin themselves and INT5    *)
(* can only run after they return.                                         *)
(***************************************************************************)
EXTENDS Naturals, FiniteSets, Sequences

VARIABLES
    manualTrigger,      \* volatile bool manualTrigger
    digitalTrigger,     \* volatile bool digitalTrigger
    draining,           \* volatile bool draining
    valveOpen,          \* volatile bool valveOpen
    inCalibration,      \* volatile bool inCalibration
    sequenceComplete,   \* volatile bool sequenceComplete
    tickCounter,        \* volatile unsigned int tickCounter
    maxTicks,           \* volatile unsigned int maxTicks
    releaseCount,       \* volatile unsigned int releaseCount
    maxReleases,        \* volatile unsigned int maxReleases
    drainCycles,        \* volatile unsigned int drainCycles
    valvePower,         \* duty written to pin __valvePower by analogWrite
    LED,                \* level written to pin __LED (TRUE = HIGH)
    TIMSK1,             \* enabled timer1 interrupts, subset of {OCIE1A, OCIE1B}
    TIMSK2,             \* enabled timer2 interrupts, subset of {OCIE2A, OCIE2B}
    TIMSK4,             \* enabled timer4 interrupts, subset of {OCIE4A}
    TIMSK5,             \* enabled timer5 interrupts, subset of {OCIE5A}
    EIFR,               \* pending external interrupts, subset of {INTF5}
    pinManual,          \* level of pin D2 (pull-up: TRUE = released)
    pinPanel,           \* level of pin D18 (pull-up: TRUE = released)
    extLevel,           \* level the external source drives on D3 (pull-down)
    digitalMode,        \* pinMode of D3: "INPUT" or "OUTPUT"
    digitalPort,        \* output latch of D3 (TRUE = HIGH)
    pc,                 \* position of loop()
    timsk1Read,         \* value of TIMSK1 loaded by loop() for TIMSK1 |= ...
    pulses,             \* history: synthetic pulses asserted and deasserted in the trial
    TCNT1,              \* counter of timer1, in periods of the pulse clock
    TIFR1,              \* pending timer1 compare matches, subset of {OCF1B}
    TIFR5,              \* pending timer5 compare matches, subset of {OCF5A}
    TIFR2,              \* pending timer2 compare matches, subset of {OCF2A, OCF2B}
    TCNT4,              \* counter of timer4, in steps of Timer4Tick
    TIFR4,              \* pending timer4 compare matches, subset of {OCF4A}
    hitTicks,           \* history: steps of timer4 since the last opening
    inFlight            \* handlers that have started and not returned (SpecNested)

vars == << manualTrigger, digitalTrigger, draining, valveOpen, inCalibration,
           sequenceComplete, tickCounter, maxTicks, releaseCount, maxReleases,
           drainCycles, valvePower, LED, TIMSK1, TIMSK2, TIMSK4, TIMSK5, EIFR,
           pinManual, pinPanel, extLevel, digitalMode, digitalPort, pc,
           timsk1Read, pulses, TCNT1, TIFR1, TIFR5, TIFR2, TCNT4, TIFR4, hitTicks,
           inFlight >>

flagVars == << manualTrigger, digitalTrigger, draining >>
calVars  == << inCalibration, sequenceComplete, tickCounter, maxTicks,
               releaseCount, maxReleases >>
pinVars  == << pinManual, pinPanel, extLevel >>
loopVars == << pc, timsk1Read >>
clockVars == << TCNT1, TIFR1, TIFR5, TIFR2 >>
timer4Vars == << TIMSK4, TIFR4, TCNT4, hitTicks >>

----------------------------------------------------------------------------
(* Program constants *)

hitVoltage == 255
holdVoltage == 85
maxDrainCycles == 200

(* Bounds of the model *)

\* the watchdog limit of the full specification Spec, where it stands for
\* maxDrainCycles; SpecDrain runs the watchdog with maxDrainCycles itself
DrainLimit == 2
\* the trial table of loop(): largest openTime[j] and largest numOpens[j]
MaxOpenTime == 1
MaxNumOpens == 2
\* steps of timer4 in one hold transition delay (SpecHold)
HoldTicks == 2
\* handlers in flight at once (SpecNested)
MaxNest == 2

\* unsigned int is 16 bits wide on the ATmega2560
UInt(x) == x % (2^16)

----------------------------------------------------------------------------
(* Register and pin helpers *)

\* mutant of SetBit: the enable bit is not written
SetBitNone(reg, bit) == reg

\* REG |= (1 << bit)
SetBit(reg, bit) == reg \cup {bit}

\* mutant of AndZeroShift: the register is left as it was, so a handler
\* does not disarm its own timer
AndZeroShiftKeep(reg, bit) == reg

\* REG &= (0 << bit): the right-hand side is 0 whatever the bit, so the
\* whole register is cleared
AndZeroShift(reg, bit) == reg \cap {}

\* digitalRead(__digitalTrigger): the latch when the pin is an output,
\* otherwise the externally driven level
DigitalLevel(mode, port, ext) == IF mode = "OUTPUT" THEN port ELSE ext

\* INT5 is configured for any logic change (ISC50): a change of level
\* raises INTF5
RaiseINT5(flags, old, new) == IF old # new THEN flags \cup {"INTF5"} ELSE flags

\* mutant of CurrentDigitalLevel: the level of the external source is taken
\* even while the sketch drives the pin itself
ExternalLevelOnly == extLevel

CurrentDigitalLevel == DigitalLevel(digitalMode, digitalPort, extLevel)

\* mutant of ManualAsserted: the sense of the pull-up input is inverted
ManualAssertedInverted(pin) == pin

\* if (!digitalRead(__manualTrigger)): the manual trigger is on a pull-up,
\* it is asserted when the pin reads low
ManualAsserted(pin) == ~pin

\* mutant of PanelAsserted: the settle check acts on either level
PanelAssertedAlways(pin) == TRUE

\* if (!digitalRead(__panelButton)): the panel button is on a pull-up, it
\* is engaged when the pin reads low
PanelAsserted(pin) == ~pin

----------------------------------------------------------------------------
Init ==
    /\ manualTrigger = FALSE
    /\ digitalTrigger = FALSE
    /\ draining = FALSE
    /\ valveOpen = FALSE
    /\ inCalibration = FALSE
    /\ sequenceComplete = FALSE
    /\ tickCounter = 0
    /\ maxTicks = 0
    /\ releaseCount = 0
    /\ maxReleases = 0
    /\ drainCycles = 0
    /\ valvePower = 0
    /\ LED = FALSE
    /\ TIMSK1 = {}
    /\ TIMSK2 = {}
    /\ TIMSK4 = {}
    /\ TIMSK5 = {}
    /\ EIFR = {}
    /\ pinManual = TRUE
    /\ pinPanel = TRUE
    /\ extLevel = FALSE
    /\ digitalMode = "INPUT"
    /\ digitalPort = FALSE
    /\ pc = "idle"
    /\ timsk1Read = {}
    /\ pulses = 0
    /\ TCNT1 = 0
    /\ TIFR1 = {}
    /\ TIFR5 = {}
    /\ TIFR2 = {}
    /\ TCNT4 = 0
    /\ TIFR4 = {}
    /\ hitTicks = 0
    /\ inFlight = << >>

----------------------------------------------------------------------------
(* The environment: raw pin edges *)

\* the panel button is released: a rising edge, which raises no interrupt
\* (INT3 is configured for the falling edge)
PanelRelease ==
    /\ ~pinPanel
    /\ pinPanel' = TRUE
    /\ UNCHANGED << clockVars, inFlight >>
    /\ UNCHANGED << flagVars, valveOpen, calVars, drainCycles, valvePower, LED,
                    TIMSK1, TIMSK2, timer4Vars, TIMSK5, EIFR, pinManual, extLevel,
                    digitalMode, digitalPort, loopVars, pulses >>

\* the external source changes the level it drives on D3
ExternalEdge ==
    /\ extLevel' = ~extLevel
    /\ EIFR' = RaiseINT5(EIFR, CurrentDigitalLevel,
                         DigitalLevel(digitalMode, digitalPort, ~extLevel))
    /\ UNCHANGED << clockVars, inFlight >>
    /\ UNCHANGED << flagVars, valveOpen, calVars, drainCycles, valvePower, LED,
                    TIMSK1, TIMSK2, timer4Vars, TIMSK5, pinManual, pinPanel,
                    digitalMode, digitalPort, loopVars, pulses >>

----------------------------------------------------------------------------
(* The blocks the handlers share *)

\* mutant of ShouldOpen: the check of valveOpen is dropped, every activation
\* applies the hit voltage again
ShouldOpenAlways(open) == TRUE

\* if (!valveOpen): a source that becomes active opens the valve only if it
\* is closed
ShouldOpen(open) == ~open

\* Timer4 runs free in CTC mode from setup() on.  The counter wraps to 0 and
\* the flag OCF4A is raised on the count after it equals OCR4A; one step of
\* the model is 1/HoldTicks of the period of 25 ms.
OCR4A == HoldTicks - 1

\* TIFR4 = (1 << OCF4A); TCNT4 = 0: the flag is cleared before the counter is
\* reset and the timer counts on between the two statements.  If timer4
\* reaches its compare match there (midStatement), the flag is raised again
\* after it was cleared and is pending when the handler returns.
ClearThenReset(count, midStatement) ==
    IF midStatement /\ count = OCR4A THEN {"OCF4A"} ELSE {}

\* mutant of OpenValve: the hold timer is not armed by the opening
OpenValveNoHoldTimer ==
    /\ valveOpen' = TRUE
    /\ valvePower' = hitVoltage
    /\ LED' = TRUE
    /\ \E midStatement \in BOOLEAN : TIFR4' = ClearThenReset(TCNT4, midStatement)
    /\ TCNT4' = 0
    /\ TIMSK4' = TIMSK4
    /\ hitTicks' = 0

\* valveOpen = true; analogWrite(__valvePower, hitVoltage);
\* digitalWrite(__LED, HIGH); TIFR4 = (1 << OCF4A); TCNT4 = 0;
\* TIMSK4 |= (1 << OCIE4A)
OpenValve ==
    /\ valveOpen' = TRUE
    /\ valvePower' = hitVoltage
    /\ LED' = TRUE
    /\ \E midStatement \in BOOLEAN : TIFR4' = ClearThenReset(TCNT4, midStatement)
    /\ TCNT4' = 0
    /\ TIMSK4' = SetBit(TIMSK4, "OCIE4A")
    /\ hitTicks' = 0

\* mutant of OthersIdle: only the first of the other two sources is checked
OthersIdleFirstOnly(a, b) == ~a

\* mutant of OthersIdle: only the second of the other two sources is checked
OthersIdleSecondOnly(a, b) == ~b

\* if (!draining && !manualTrigger) and its two siblings: a source that
\* becomes inactive closes the valve only if the other two are inactive
OthersIdle(a, b) == ~a /\ ~b

\* mutant of CloseValve: the analogWrite(__valvePower, 0) is missing
CloseValveKeepPower ==
    /\ valveOpen' = FALSE
    /\ valvePower' = valvePower
    /\ LED' = FALSE

\* valveOpen = false; analogWrite(__valvePower, 0); digitalWrite(__LED, LOW)
CloseValve ==
    /\ valveOpen' = FALSE
    /\ valvePower' = 0
    /\ LED' = FALSE

----------------------------------------------------------------------------
(* Interrupt service routines *)

\* ISR (INT3_vect), with the falling edge of the panel button that raises
\* it: start the debounce timer of the panel button
INT3 ==
    /\ pinPanel
    /\ pinPanel' = FALSE
    /\ TIMSK2' = SetBit(TIMSK2, "OCIE2B")
    /\ TIFR2' = TIFR2 \ {"OCF2B"}
    /\ UNCHANGED << TCNT1, TIFR1, TIFR5, inFlight >>
    /\ UNCHANGED << flagVars, valveOpen, calVars, drainCycles, valvePower, LED,
                    TIMSK1, timer4Vars, TIMSK5, EIFR, pinManual, extLevel,
                    digitalMode, digitalPort, loopVars, pulses >>

\* mutant of INT4: the raw edge interrupt sets the flag from the pin itself
INT4Undebounced ==
    /\ pinManual' = ~pinManual
    /\ manualTrigger' = pinManual
    /\ TIMSK2' = SetBit(TIMSK2, "OCIE2A")
    /\ TIFR2' = TIFR2 \ {"OCF2A"}
    /\ UNCHANGED << TCNT1, TIFR1, TIFR5, inFlight >>
    /\ UNCHANGED << digitalTrigger, draining, valveOpen, calVars, drainCycles,
                    valvePower, LED, TIMSK1, timer4Vars, TIMSK5, EIFR, pinPanel,
                    extLevel, digitalMode, digitalPort, loopVars, pulses >>

\* ISR (INT4_vect), with the edge of the manual trigger that raises it (any
\* logic change): start the debounce timer of the manual trigger
INT4 ==
    /\ pinManual' = ~pinManual
    /\ TIMSK2' = SetBit(TIMSK2, "OCIE2A")
    /\ TIFR2' = TIFR2 \ {"OCF2A"}
    /\ UNCHANGED << TCNT1, TIFR1, TIFR5, inFlight >>
    /\ UNCHANGED << flagVars, valveOpen, calVars, drainCycles, valvePower, LED,
                    TIMSK1, timer4Vars, TIMSK5, EIFR, pinPanel, extLevel,
                    digitalMode, digitalPort, loopVars, pulses >>

\* ISR (INT5_vect): decode the digital trigger from its level
INT5 ==
    /\ "INTF5" \in EIFR
    /\ EIFR' = EIFR \ {"INTF5"}
    /\ IF CurrentDigitalLevel
         THEN IF ~digitalTrigger
                THEN /\ digitalTrigger' = TRUE
                     /\ IF ShouldOpen(valveOpen)
                          THEN OpenValve
                          ELSE UNCHANGED << valveOpen, valvePower, LED, timer4Vars >>
                ELSE UNCHANGED << digitalTrigger, valveOpen, valvePower, LED, timer4Vars >>
         ELSE IF digitalTrigger
                THEN /\ digitalTrigger' = FALSE
                     /\ IF OthersIdle(draining, manualTrigger)
                          THEN CloseValve
                          ELSE UNCHANGED << valveOpen, valvePower, LED >>
                     /\ UNCHANGED timer4Vars
                ELSE UNCHANGED << digitalTrigger, valveOpen, valvePower, LED, timer4Vars >>
    /\ UNCHANGED << clockVars, inFlight >>
    /\ UNCHANGED << manualTrigger, draining, calVars, drainCycles, TIMSK1, TIMSK2,
                    TIMSK5, pinVars, digitalMode, digitalPort, loopVars, pulses >>

\* ISR (TIMER1_COMPA_vect): the drain watchdog tick.  limit is maxDrainCycles.
TIMER1_COMPA(limit) ==
    /\ "OCIE1A" \in TIMSK1
    /\ IF draining
         THEN /\ drainCycles' = UInt(drainCycles + 1)
              /\ IF drainCycles' > limit
                   THEN /\ TIMSK1' = AndZeroShift(TIMSK1, "OCIE1A")
                        /\ draining' = FALSE
                        /\ IF OthersIdle(manualTrigger, digitalTrigger)
                             THEN CloseValve
                             ELSE UNCHANGED << valveOpen, valvePower, LED >>
                   ELSE UNCHANGED << TIMSK1, draining, valveOpen, valvePower, LED >>
         ELSE UNCHANGED << drainCycles, TIMSK1, draining, valveOpen, valvePower, LED >>
    /\ UNCHANGED << clockVars, inFlight >>
    /\ UNCHANGED << manualTrigger, digitalTrigger, calVars, TIMSK2, timer4Vars, TIMSK5,
                    EIFR, pinVars, digitalMode, digitalPort, loopVars, pulses >>

\* The body of ISR (TIMER1_COMPB_vect), the calibration release clock.  The
\* hardware clears OCF1B when the vector is executed.
TIMER1_COMPB_vect ==
    /\ "OCIE1B" \in TIMSK1
    /\ TIFR1' = TIFR1 \ {"OCF1B"}
    /\ releaseCount' = UInt(releaseCount + 1)
    /\ IF releaseCount' < maxReleases
         THEN /\ tickCounter' = 0
              /\ digitalMode' = "OUTPUT"
              /\ digitalPort' = TRUE
              /\ TIFR5' = {}
              /\ TIMSK5' = SetBit(TIMSK5, "OCIE5A")
              /\ UNCHANGED << TIMSK1, sequenceComplete >>
         ELSE /\ TIMSK1' = AndZeroShift(TIMSK1, "OCIE1B")
              /\ sequenceComplete' = TRUE
              /\ digitalMode' = "INPUT"
              /\ digitalPort' = FALSE
              /\ UNCHANGED << tickCounter, TIFR5, TIMSK5 >>
    /\ EIFR' = RaiseINT5(EIFR, CurrentDigitalLevel,
                         DigitalLevel(digitalMode', digitalPort', extLevel))
    /\ UNCHANGED << TCNT1, TIFR2, inFlight >>
    /\ UNCHANGED << flagVars, valveOpen, inCalibration, maxTicks, maxReleases,
                    drainCycles, valvePower, LED, TIMSK2, timer4Vars, pinVars,
                    loopVars, pulses >>

\* ISR (TIMER1_COMPB_vect) where the counters of the timers are abstracted.
\* Timer1 matches once a second (OCR1B = 15624, prescale 1024) and TCNT1 is
\* only ever written with 0, which postpones the match; a pulse lasts at most
\* openTime + 2 ticks of the 1 ms clock of timer5 and openTime is at most 220.
\* So the pulse clock has always been switched off again when timer1 matches
\* (SpecPulse checks this with the counters).
TIMER1_COMPB ==
    /\ "OCIE5A" \notin TIMSK5
    /\ TIMER1_COMPB_vect

\* ISR (TIMER2_COMPA_vect): settle check of the manual trigger
TIMER2_COMPA ==
    /\ "OCIE2A" \in TIMSK2
    /\ TIMSK2' = AndZeroShift(TIMSK2, "OCIE2A")
    /\ IF ManualAsserted(pinManual)
         THEN IF ~manualTrigger
                THEN /\ manualTrigger' = TRUE
                     /\ IF ShouldOpen(valveOpen)
                          THEN OpenValve
                          ELSE UNCHANGED << valveOpen, valvePower, LED, timer4Vars >>
                ELSE UNCHANGED << manualTrigger, valveOpen, valvePower, LED, timer4Vars >>
         ELSE IF manualTrigger
                THEN /\ manualTrigger' = FALSE
                     /\ IF OthersIdle(draining, digitalTrigger)
                          THEN CloseValve
                          ELSE UNCHANGED << valveOpen, valvePower, LED >>
                     /\ UNCHANGED timer4Vars
                ELSE UNCHANGED << manualTrigger, valveOpen, valvePower, LED, timer4Vars >>
    /\ TIFR2' = TIFR2 \ {"OCF2A"}
    /\ UNCHANGED << TCNT1, TIFR1, TIFR5, inFlight >>
    /\ UNCHANGED << digitalTrigger, draining, calVars, drainCycles, TIMSK1, TIMSK5,
                    EIFR, pinVars, digitalMode, digitalPort, loopVars, pulses >>

\* mutant of ResetDrainCycles: the counter of the last session is kept
KeepDrainCycles(cycles) == cycles

\* drainCycles = 0, when a drain session starts
ResetDrainCycles(cycles) == 0

\* ISR (TIMER2_COMPB_vect): settle check of the panel button
TIMER2_COMPB ==
    /\ "OCIE2B" \in TIMSK2
    /\ TIMSK2' = AndZeroShift(TIMSK2, "OCIE2B")
    /\ IF PanelAsserted(pinPanel)
         THEN IF ~draining
                THEN IF ShouldOpen(valveOpen)
                       THEN /\ draining' = TRUE
                            /\ drainCycles' = ResetDrainCycles(drainCycles)
                            /\ OpenValve
                            /\ TCNT1' = 0
                            /\ TIMSK1' = SetBit(TIMSK1, "OCIE1A")
                       ELSE UNCHANGED << draining, drainCycles, valveOpen, valvePower,
                                         LED, TCNT1, TIMSK1, timer4Vars >>
                ELSE /\ TIMSK1' = AndZeroShift(TIMSK1, "OCIE1A")
                     /\ draining' = FALSE
                     /\ IF OthersIdle(manualTrigger, digitalTrigger)
                          THEN CloseValve
                          ELSE UNCHANGED << valveOpen, valvePower, LED >>
                     /\ UNCHANGED << drainCycles, TCNT1, timer4Vars >>
         ELSE UNCHANGED << draining, drainCycles, valveOpen, valvePower, LED,
                           TCNT1, TIMSK1, timer4Vars >>
    /\ TIFR2' = TIFR2 \ {"OCF2B"}
    /\ UNCHANGED << TIFR1, TIFR5, inFlight >>
    /\ UNCHANGED << manualTrigger, digitalTrigger, calVars, TIMSK5, EIFR, pinVars,
                    digitalMode, digitalPort, loopVars, pulses >>

\* mutant of HoldLevel: the hold voltage is written without checking valveOpen
HoldLevelUnguarded(open, power) == holdVoltage

\* if (valveOpen) analogWrite(__valvePower, holdVoltage): the duty that
\* TIMER4_COMPA leaves on the pin
HoldLevel(open, power) == IF open THEN holdVoltage ELSE power

\* ISR (TIMER4_COMPA_vect): transition from hit voltage to hold voltage.
\* The hardware clears OCF4A when the vector is executed.
TIMER4_COMPA ==
    /\ "OCIE4A" \in TIMSK4
    /\ TIFR4' = TIFR4 \ {"OCF4A"}
    /\ TIMSK4' = AndZeroShift(TIMSK4, "OCIE4A")
    /\ valvePower' = HoldLevel(valveOpen, valvePower)
    /\ UNCHANGED << TCNT4, hitTicks >>
    /\ UNCHANGED << clockVars, inFlight >>
    /\ UNCHANGED << flagVars, valveOpen, calVars, drainCycles, LED, TIMSK1, TIMSK2,
                    TIMSK5, EIFR, pinVars, digitalMode, digitalPort, loopVars,
                    pulses >>

\* ISR (TIMER5_COMPA_vect): the 1 kHz pulse clock of the calibration release.
\* pulses counts the pulses of the trial that were driven HIGH by
\* TIMER1_COMPB and are driven LOW here.
TIMER5_COMPA ==
    /\ "OCIE5A" \in TIMSK5
    /\ TIFR5' = TIFR5 \ {"OCF5A"}
    /\ tickCounter' = UInt(tickCounter + 1)
    /\ IF tickCounter > maxTicks
         THEN /\ TIMSK5' = AndZeroShift(TIMSK5, "OCIE5A")
              /\ digitalPort' = FALSE
              /\ EIFR' = RaiseINT5(EIFR, CurrentDigitalLevel,
                                   DigitalLevel(digitalMode, FALSE, extLevel))
              /\ pulses' = IF digitalMode = "OUTPUT" /\ digitalPort
                             THEN pulses + 1 ELSE pulses
         ELSE UNCHANGED << TIMSK5, digitalPort, EIFR, pulses >>
    /\ UNCHANGED << TCNT1, TIFR1, TIFR2, inFlight >>
    /\ UNCHANGED << flagVars, valveOpen, inCalibration, sequenceComplete, maxTicks,
                    releaseCount, maxReleases, drainCycles, valvePower, LED, TIMSK1,
                    TIMSK2, timer4Vars, pinVars, digitalMode, loopVars >>

----------------------------------------------------------------------------
(* loop(): the cooperative context, one statement per step *)

isrVars == << flagVars, valveOpen, drainCycles, valvePower, TIMSK2, timer4Vars, TIMSK5,
              EIFR, pinVars, digitalMode, digitalPort >>

\* cases 'T', 'R', 'U' and 'W': digitalWrite(__LED, HIGH) before the scale is read
ScaleLedOn ==
    /\ pc = "idle"
    /\ pc' = "scale"
    /\ LED' = TRUE
    /\ UNCHANGED << clockVars, inFlight >>
    /\ UNCHANGED << isrVars, calVars, TIMSK1, timsk1Read, pulses >>

\* cases 'T', 'R', 'U' and 'W': digitalWrite(__LED, LOW) after the scale is read
ScaleLedOff ==
    /\ pc = "scale"
    /\ pc' = "idle"
    /\ LED' = FALSE
    /\ UNCHANGED << clockVars, inFlight >>
    /\ UNCHANGED << isrVars, calVars, TIMSK1, timsk1Read, pulses >>

\* case 'F': inCalibration = true, and the first trial begins
FlowBegin ==
    /\ pc = "idle"
    /\ pc' = "tareOn"
    /\ inCalibration' = TRUE
    /\ UNCHANGED << clockVars, inFlight >>
    /\ UNCHANGED << isrVars, sequenceComplete, tickCounter, maxTicks, releaseCount,
                    maxReleases, LED, TIMSK1, timsk1Read, pulses >>

\* digitalWrite(__LED, HIGH); hx711.tare(100)
TrialTareOn ==
    /\ pc = "tareOn"
    /\ pc' = "tareOff"
    /\ LED' = TRUE
    /\ UNCHANGED << clockVars, inFlight >>
    /\ UNCHANGED << isrVars, calVars, TIMSK1, timsk1Read, pulses >>

\* digitalWrite(__LED, LOW)
TrialTareOff ==
    /\ pc = "tareOff"
    /\ pc' = "setMaxTicks"
    /\ LED' = FALSE
    /\ UNCHANGED << clockVars, inFlight >>
    /\ UNCHANGED << isrVars, calVars, TIMSK1, timsk1Read, pulses >>

\* maxTicks = openTime[j]
TrialSetMaxTicks ==
    /\ pc = "setMaxTicks"
    /\ pc' = "setReleaseCount"
    /\ \E openTime \in 1..MaxOpenTime : maxTicks' = openTime
    /\ UNCHANGED << clockVars, inFlight >>
    /\ UNCHANGED << isrVars, inCalibration, sequenceComplete, tickCounter,
                    releaseCount, maxReleases, LED, TIMSK1, timsk1Read, pulses >>

\* releaseCount = 0
TrialSetReleaseCount ==
    /\ pc = "setReleaseCount"
    /\ pc' = "setMaxReleases"
    /\ releaseCount' = 0
    /\ pulses' = 0
    /\ UNCHANGED << clockVars, inFlight >>
    /\ UNCHANGED << isrVars, inCalibration, sequenceComplete, tickCounter, maxTicks,
                    maxReleases, LED, TIMSK1, timsk1Read >>

\* maxReleases = numOpens[j]
TrialSetMaxReleases ==
    /\ pc = "setMaxReleases"
    /\ pc' = "setSequenceComplete"
    /\ \E numOpens \in 1..MaxNumOpens : maxReleases' = numOpens
    /\ UNCHANGED << clockVars, inFlight >>
    /\ UNCHANGED << isrVars, inCalibration, sequenceComplete, tickCounter, maxTicks,
                    releaseCount, LED, TIMSK1, timsk1Read, pulses >>

\* sequenceComplete = false
TrialSetSequenceComplete ==
    /\ pc = "setSequenceComplete"
    /\ pc' = "readTIMSK1"
    /\ sequenceComplete' = FALSE
    /\ UNCHANGED << clockVars, inFlight >>
    /\ UNCHANGED << isrVars, inCalibration, tickCounter, maxTicks, releaseCount,
                    maxReleases, LED, TIMSK1, timsk1Read, pulses >>

\* TCNT1 = 0; TIMSK1 |= (1 << OCIE1B): TIMSK1 is outside the range of sbi, so
\* the statement is a load, an or and a store; this is the load
TrialReadTIMSK1 ==
    /\ pc = "readTIMSK1"
    /\ pc' = "writeTIMSK1"
    /\ timsk1Read' = TIMSK1
    /\ TCNT1' = 0
    /\ UNCHANGED << TIFR1, TIFR5, TIFR2, inFlight >>
    /\ UNCHANGED << isrVars, calVars, LED, TIMSK1, pulses >>

\* the store of TIMSK1 |= (1 << OCIE1B)
TrialWriteTIMSK1 ==
    /\ pc = "writeTIMSK1"
    /\ pc' = "poll"
    /\ TIMSK1' = SetBit(timsk1Read, "OCIE1B")
    /\ timsk1Read' = {}
    /\ UNCHANGED << clockVars, inFlight >>
    /\ UNCHANGED << isrVars, calVars, LED, pulses >>

\* mutant of TrialPoll: loop() does not wait for sequenceComplete
TrialPollNoWait ==
    /\ pc = "poll"
    /\ pc' = "unitsOn"
    /\ UNCHANGED << clockVars, inFlight >>
    /\ UNCHANGED << isrVars, calVars, LED, TIMSK1, timsk1Read, pulses >>

\* while (!sequenceComplete); Serial.print(releaseCount)
TrialPoll ==
    /\ pc = "poll"
    /\ sequenceComplete
    /\ pc' = "unitsOn"
    /\ UNCHANGED << clockVars, inFlight >>
    /\ UNCHANGED << isrVars, calVars, LED, TIMSK1, timsk1Read, pulses >>

\* digitalWrite(__LED, HIGH); volumes[i][j] = -hx711.get_units(100)
TrialUnitsOn ==
    /\ pc = "unitsOn"
    /\ pc' = "unitsOff"
    /\ LED' = TRUE
    /\ UNCHANGED << clockVars, inFlight >>
    /\ UNCHANGED << isrVars, calVars, TIMSK1, timsk1Read, pulses >>

\* digitalWrite(__LED, LOW); then the next trial of the table
TrialUnitsOff ==
    /\ pc = "unitsOff"
    /\ pc' = "tareOn"
    /\ LED' = FALSE
    /\ UNCHANGED << clockVars, inFlight >>
    /\ UNCHANGED << isrVars, calVars, TIMSK1, timsk1Read, pulses >>

\* digitalWrite(__LED, LOW) of the last trial; inCalibration = false
FlowEnd ==
    /\ pc = "unitsOff"
    /\ pc' = "idle"
    /\ LED' = FALSE
    /\ inCalibration' = FALSE
    /\ UNCHANGED << clockVars, inFlight >>
    /\ UNCHANGED << isrVars, sequenceComplete, tickCounter, maxTicks, releaseCount,
                    maxReleases, TIMSK1, timsk1Read, pulses >>

----------------------------------------------------------------------------
Environment == PanelRelease \/ ExternalEdge

Handlers(limit) ==
    \/ INT3 \/ INT4 \/ INT5
    \/ TIMER1_COMPA(limit) \/ TIMER1_COMPB
    \/ TIMER2_COMPA \/ TIMER2_COMPB
    \/ TIMER4_COMPA \/ TIMER5_COMPA

Loop ==
    \/ ScaleLedOn \/ ScaleLedOff
    \/ FlowBegin \/ TrialTareOn \/ TrialTareOff
    \/ TrialSetMaxTicks \/ TrialSetReleaseCount \/ TrialSetMaxReleases
    \/ TrialSetSequenceComplete \/ TrialReadTIMSK1 \/ TrialWriteTIMSK1
    \/ TrialPoll \/ TrialUnitsOn \/ TrialUnitsOff \/ FlowEnd

Next == Environment \/ Handlers(DrainLimit) \/ Loop

Spec == Init /\ [][Next]_vars

\* The sketch with the watchdog limit of the source (maxDrainCycles = 200), in
\* the runs in which the console is left alone: no command is sent, so loop()
\* stays idle and the calibration clocks are never switched on.
NextDrain == Environment \/ INT3 \/ INT4 \/ INT5 \/ TIMER1_COMPA(maxDrainCycles)
                \/ TIMER2_COMPA \/ TIMER2_COMPB \/ TIMER4_COMPA

SpecDrain == Init /\ [][NextDrain]_vars

\* Timer4 counts one step (1/HoldTicks of 25 ms); on the count after OCR4A
\* it wraps and raises OCF4A, whether or not the interrupt is enabled.
\* hitTicks is the time since the last opening, up to HoldTicks.
Timer4Tick ==
    /\ TCNT4' = IF TCNT4 = OCR4A THEN 0 ELSE TCNT4 + 1
    /\ TIFR4' = IF TCNT4 = OCR4A THEN TIFR4 \cup {"OCF4A"} ELSE TIFR4
    /\ hitTicks' = IF hitTicks < HoldTicks THEN hitTicks + 1 ELSE hitTicks
    /\ UNCHANGED << clockVars, inFlight >>
    /\ UNCHANGED << flagVars, valveOpen, calVars, drainCycles, valvePower, LED,
                    TIMSK1, TIMSK2, TIMSK4, TIMSK5, EIFR, pinVars, digitalMode,
                    digitalPort, loopVars, pulses >>

\* ISR (TIMER4_COMPA_vect) is executed when OCF4A is pending and OCIE4A is set
Timer4Match ==
    /\ "OCF4A" \in TIFR4
    /\ TIMER4_COMPA

\* The sketch with the counter of timer4, in the runs in which the console is
\* left alone (loop() stays idle).
NextHold == Environment \/ INT3 \/ INT4 \/ INT5 \/ TIMER1_COMPA(DrainLimit)
               \/ TIMER2_COMPA \/ TIMER2_COMPB \/ Timer4Tick \/ Timer4Match

SpecHold == Init /\ [][NextHold]_vars

\* mutant of OCR1B: the release clock is faster than the longest pulse
OCR1BShort == MaxOpenTime

\* OCR1B = 15624 at prescale 1024: timer1 matches once a second, which is
\* longer than the longest pulse (openTime + 2 periods of the pulse clock,
\* 222 ms).  In the model timer1 counts in periods of the pulse clock and its
\* period, OCR1B + 1, is the shortest one that is longer than the longest
\* pulse of the model.
OCR1B == MaxOpenTime + 2

\* One period of the pulse clock (1 ms) passes: timer5 matches, timer1 counts
\* and matches on the count after OCR1B.  A pending compare-match interrupt
\* that is enabled is executed within the millisecond, and so is the store
\* of TIMSK1 |= ... that follows the load in loop().
MilliTick ==
    /\ ~("OCF1B" \in TIFR1 /\ "OCIE1B" \in TIMSK1)
    /\ ~("OCF5A" \in TIFR5 /\ "OCIE5A" \in TIMSK5)
    /\ pc # "writeTIMSK1"
    /\ TCNT1' = IF TCNT1 = OCR1B THEN 0 ELSE TCNT1 + 1
    /\ TIFR1' = IF TCNT1 = OCR1B THEN TIFR1 \cup {"OCF1B"} ELSE TIFR1
    /\ TIFR5' = TIFR5 \cup {"OCF5A"}
    /\ UNCHANGED << flagVars, valveOpen, calVars, drainCycles, valvePower, LED,
                    TIMSK1, TIMSK2, timer4Vars, TIMSK5, EIFR, pinVars, digitalMode,
                    digitalPort, loopVars, pulses, TIFR2, inFlight >>

\* ISR (TIMER1_COMPB_vect) is executed when OCF1B is pending and OCIE1B is set
Timer1Match ==
    /\ "OCF1B" \in TIFR1
    /\ TIMER1_COMPB_vect

\* ISR (TIMER5_COMPA_vect) is executed when OCF5A is pending and OCIE5A is set
Timer5Match ==
    /\ "OCF5A" \in TIFR5
    /\ TIMER5_COMPA

\* The sketch with the counter of timer1 and the compare flags of timer1 and
\* timer5: the release clock and the pulse clock run as the timers make them.
\* The console sends 'F' only.  The manual trigger is left alone and the hold
\* timer is not served: their handlers write none of timer1, timer5, the
\* digital trigger pin and the variables of the calibration.
NextPulse ==
    \/ Environment \/ INT3 \/ INT5
    \/ TIMER1_COMPA(DrainLimit) \/ Timer1Match
    \/ TIMER2_COMPB \/ Timer5Match
    \/ FlowBegin \/ TrialTareOn \/ TrialTareOff
    \/ TrialSetMaxTicks \/ TrialSetReleaseCount \/ TrialSetMaxReleases
    \/ TrialSetSequenceComplete \/ TrialReadTIMSK1 \/ TrialWriteTIMSK1
    \/ TrialPoll \/ TrialUnitsOn \/ TrialUnitsOff \/ FlowEnd
    \/ MilliTick

SpecPulse == Init /\ [][NextPulse]_vars

\* Timer2 reaches its compare match.  OCR2A and OCR2B hold the same value, so
\* both compare flags are raised by the same count, whether or not the
\* interrupts are enabled.
Timer2Tick ==
    /\ TIFR2' = {"OCF2A", "OCF2B"}
    /\ UNCHANGED << TCNT1, TIFR1, TIFR5, inFlight >>
    /\ UNCHANGED << flagVars, valveOpen, calVars, drainCycles, valvePower, LED,
                    TIMSK1, TIMSK2, timer4Vars, TIMSK5, EIFR, pinVars, digitalMode,
                    digitalPort, loopVars, pulses >>

\* ISR (TIMER2_COMPA_vect) is executed when OCF2A is pending and OCIE2A is set
Timer2MatchA ==
    /\ "OCF2A" \in TIFR2
    /\ TIMER2_COMPA

\* ISR (TIMER2_COMPB_vect) is executed when OCF2B is pending and OCIE2B is
\* set, after TIMER2_COMPA if that one is pending as well (its vector has the
\* lower address)
Timer2MatchB ==
    /\ "OCF2B" \in TIFR2
    /\ ~("OCF2A" \in TIFR2 /\ "OCIE2A" \in TIMSK2)
    /\ TIMER2_COMPB

\* The sketch with the compare flags of timer2, in the runs in which the
\* console is left alone (loop() stays idle): the settle checks run on the
\* compare match of the debounce timer, in the order of their vectors.
NextDebounce == Environment \/ INT3 \/ INT4 \/ INT5 \/ TIMER1_COMPA(DrainLimit)
                   \/ Timer2Tick \/ Timer2MatchA \/ Timer2MatchB \/ TIMER4_COMPA

SpecDebounce == Init /\ [][NextDebounce]_vars

----------------------------------------------------------------------------
(* Handlers that may preempt one another.  On the ATmega2560 a handler     *)
(* runs with the global interrupt enable bit cleared, and the actions      *)
(* above are the handlers of that build.  The actions below are the same   *)
(* handlers of the External and the Manual source when a second handler    *)
(* may start before the first has returned: a handler first writes its     *)
(* flag and evaluates the condition of its if statement (Enter), and       *)
(* executes the body of the if statement when it is resumed (Return).      *)
(* inFlight is the stack of the handlers that have started and not         *)
(* returned, each with the body it has still to execute.                   *)

Frame(isr, body) == [isr |-> isr, body |-> body]

\* ISR (INT5_vect) up to the condition of if (!valveOpen), or of
\* if (!draining && !manualTrigger)
INT5Enter ==
    /\ "INTF5" \in EIFR
    /\ Len(inFlight) < MaxNest
    /\ EIFR' = EIFR \ {"INTF5"}
    /\ IF CurrentDigitalLevel
         THEN IF ~digitalTrigger
                THEN /\ digitalTrigger' = TRUE
                     /\ inFlight' = Append(inFlight,
                            Frame("INT5", IF ShouldOpen(valveOpen)
                                            THEN "open" ELSE "none"))
                ELSE /\ inFlight' = Append(inFlight, Frame("INT5", "none"))
                     /\ UNCHANGED digitalTrigger
         ELSE IF digitalTrigger
                THEN /\ digitalTrigger' = FALSE
                     /\ inFlight' = Append(inFlight,
                            Frame("INT5", IF OthersIdle(draining, manualTrigger)
                                            THEN "close" ELSE "none"))
                ELSE /\ inFlight' = Append(inFlight, Frame("INT5", "none"))
                     /\ UNCHANGED digitalTrigger
    /\ UNCHANGED << clockVars, manualTrigger, draining, valveOpen, calVars,
                    drainCycles, valvePower, LED, TIMSK1, TIMSK2, timer4Vars,
                    TIMSK5, pinVars, digitalMode, digitalPort, loopVars, pulses >>

\* ISR (TIMER2_COMPA_vect) up to the condition of if (!valveOpen), or of
\* if (!draining && !digitalTrigger)
TIMER2_COMPAEnter ==
    /\ "OCIE2A" \in TIMSK2
    /\ Len(inFlight) < MaxNest
    /\ TIMSK2' = AndZeroShift(TIMSK2, "OCIE2A")
    /\ IF ManualAsserted(pinManual)
         THEN IF ~manualTrigger
                THEN /\ manualTrigger' = TRUE
                     /\ inFlight' = Append(inFlight,
                            Frame("TIMER2_COMPA", IF ShouldOpen(valveOpen)
                                                    THEN "open" ELSE "none"))
                ELSE /\ inFlight' = Append(inFlight, Frame("TIMER2_COMPA", "none"))
                     /\ UNCHANGED manualTrigger
         ELSE IF manualTrigger
                THEN /\ manualTrigger' = FALSE
                     /\ inFlight' = Append(inFlight,
                            Frame("TIMER2_COMPA", IF OthersIdle(draining, digitalTrigger)
                                                    THEN "close" ELSE "none"))
                ELSE /\ inFlight' = Append(inFlight, Frame("TIMER2_COMPA", "none"))
                     /\ UNCHANGED manualTrigger
    /\ TIFR2' = TIFR2 \ {"OCF2A"}
    /\ UNCHANGED << TCNT1, TIFR1, TIFR5, digitalTrigger, draining, valveOpen, calVars,
                    drainCycles, valvePower, LED, TIMSK1, timer4Vars, TIMSK5, EIFR,
                    pinVars, digitalMode, digitalPort, loopVars, pulses >>

\* the handler that started last executes the body of its if statement and
\* returns
HandlerReturn ==
    /\ inFlight # << >>
    /\ LET body == inFlight[Len(inFlight)].body
       IN  IF body = "open"
             THEN OpenValve
             ELSE IF body = "close"
                    THEN CloseValve /\ UNCHANGED timer4Vars
                    ELSE UNCHANGED << valveOpen, valvePower, LED, timer4Vars >>
    /\ inFlight' = SubSeq(inFlight, 1, Len(inFlight) - 1)
    /\ UNCHANGED << clockVars, flagVars, calVars, drainCycles, TIMSK1, TIMSK2,
                    TIMSK5, EIFR, pinVars, digitalMode, digitalPort, loopVars,
                    pulses >>

\* The External and the Manual source with handlers that may preempt one
\* another; the console and the panel button are left alone.
NextNested == ExternalEdge \/ INT4 \/ INT5Enter \/ TIMER2_COMPAEnter
                 \/ HandlerReturn \/ TIMER4_COMPA

SpecNested == Init /\ [][NextNested]_vars

\* The timer hardware keeps ticking: an enabled compare-match interrupt is
\* eventually served, a pending INT5 is served and loop() keeps running.
FairSpec ==
    /\ Spec
    /\ WF_vars(TIMER1_COMPB) /\ WF_vars(TIMER5_COMPA) /\ WF_vars(INT5)
    /\ WF_vars(TIMER4_COMPA) /\ WF_vars(TIMER1_COMPA(DrainLimit))
    /\ WF_vars(TrialReadTIMSK1) /\ WF_vars(TrialWriteTIMSK1) /\ WF_vars(TrialPoll)

----------------------------------------------------------------------------
(* Properties *)

AnySource == manualTrigger \/ digitalTrigger \/ draining

\* C1: in every reachable state the valve is closed if and only if the manual
\* trigger, the digital trigger and the drain are all inactive.
C1_ClosedIffNoSource == (~valveOpen) <=> ~AnySource

\* C1 witness: the watchdog has ended a drain session (drainCycles is past the
\* limit) and the valve is open on the digital trigger alone.
C1_OpenAfterWatchdog ==
    /\ valveOpen /\ digitalTrigger /\ ~manualTrigger /\ ~draining
    /\ drainCycles > DrainLimit

\* C2: a step that deactivates a source drives the output to 0 and clears
\* valveOpen exactly when the other two sources are inactive; otherwise it
\* leaves the output level and valveOpen as they were.
C2_DeactivationClosesWhenIdle ==
    [][ /\ (manualTrigger /\ ~manualTrigger') =>
              IF ~digitalTrigger /\ ~draining
                THEN ~valveOpen' /\ valvePower' = 0
                ELSE valveOpen' = valveOpen /\ valvePower' = valvePower
        /\ (digitalTrigger /\ ~digitalTrigger') =>
              IF ~manualTrigger /\ ~draining
                THEN ~valveOpen' /\ valvePower' = 0
                ELSE valveOpen' = valveOpen /\ valvePower' = valvePower
        /\ (draining /\ ~draining') =>
              IF ~manualTrigger /\ ~digitalTrigger
                THEN ~valveOpen' /\ valvePower' = 0
                ELSE valveOpen' = valveOpen /\ valvePower' = valvePower ]_vars

\* C2 witness: the last source was released during the hit phase: the valve
\* is closed at output 0 while the hold timer armed by the opening still runs.
C2_ClosedDuringHit ==
    /\ ~valveOpen /\ valvePower = 0 /\ ~AnySource
    /\ "OCIE4A" \in TIMSK4

\* C3: whenever draining is true the drain watchdog tick (OCIE1A) is enabled.
C3_WatchdogArmedWhileDraining == draining => "OCIE1A" \in TIMSK1

\* C4: a drain session is force-ended by the watchdog on exactly the
\* maxDrainCycles-th tick after it started.  drainCycles is 0 when the session
\* starts and is incremented by every tick of the session, so it is the number
\* of the tick; a step of the watchdog is a step that changes it while draining.
C4_ForcedEndOnLimitTick ==
    [][ /\ (draining /\ drainCycles' # drainCycles /\ ~draining')
              => drainCycles' = maxDrainCycles
        /\ (draining /\ drainCycles' # drainCycles /\ drainCycles' = maxDrainCycles)
              => ~draining' ]_vars

\* C5: the timers are independent: an enable bit that is set is cleared only
\* by the handler of its own timer (for the drain watchdog also by the panel
\* settle check that ends the drain session, which cancels it on purpose).
C5_TimersIndependent ==
    [][ /\ ("OCIE2A" \in TIMSK2 /\ "OCIE2A" \notin TIMSK2') => TIMER2_COMPA
        /\ ("OCIE2B" \in TIMSK2 /\ "OCIE2B" \notin TIMSK2') => TIMER2_COMPB
        /\ ("OCIE4A" \in TIMSK4 /\ "OCIE4A" \notin TIMSK4') => TIMER4_COMPA
        /\ ("OCIE5A" \in TIMSK5 /\ "OCIE5A" \notin TIMSK5') => TIMER5_COMPA
        /\ ("OCIE1B" \in TIMSK1 /\ "OCIE1B" \notin TIMSK1') => TIMER1_COMPB
        /\ ("OCIE1A" \in TIMSK1 /\ "OCIE1A" \notin TIMSK1') =>
              (TIMER1_COMPA(DrainLimit) \/ TIMER2_COMPB) ]_vars

\* C6: when a trial with target count maxReleases completes, exactly
\* maxReleases synthetic pulses have been asserted and deasserted.
C6_ExactlyTargetPulses ==
    (pc = "poll" /\ sequenceComplete) => pulses = maxReleases

\* C7: a synthetic pulse is deasserted on the maxTicks-th firing of the pulse
\* clock after it started.  tickCounter is 0 when the pulse starts and is
\* incremented by every firing, so after the step it is the number of the
\* firing.
C7_PulseLastsMaxTicks ==
    [][ (pc = "poll" /\ digitalMode = "OUTPUT" /\ digitalPort /\ ~digitalPort')
            => tickCounter' = maxTicks ]_vars

\* C8: once a trial has been started (release clock enabled, sequenceComplete
\* false, loop() polling) sequenceComplete eventually becomes true.
C8_TrialCompletes ==
    (pc = "poll" /\ ~sequenceComplete) ~> sequenceComplete

\* C9: every opening from the closed state drives the output at hitVoltage,
\* and the output becomes holdVoltage only from hitVoltage, with the valve
\* open, in a step that serves the hold timer (OCIE4A set before, clear after).
C9_HitBeforeHold ==
    [][ /\ (~valveOpen /\ valveOpen') => valvePower' = hitVoltage
        /\ (valvePower # holdVoltage /\ valvePower' = holdVoltage) =>
              /\ valveOpen /\ valveOpen'
              /\ valvePower = hitVoltage
              /\ "OCIE4A" \in TIMSK4 /\ "OCIE4A" \notin TIMSK4' ]_vars

\* C9 witness: the valve is open at holdVoltage and the hold timer has fired.
C9_HoldingOpen ==
    /\ valveOpen /\ valvePower = holdVoltage
    /\ "OCIE4A" \notin TIMSK4

\* C10: a step that activates a source while the valve is already open
\* changes neither the output level nor the hold timer, and while valveOpen
\* stays true an output at holdVoltage stays at holdVoltage.
C10_NoSecondHit ==
    [][ /\ ( /\ valveOpen
             /\ \/ (~manualTrigger /\ manualTrigger')
                \/ (~digitalTrigger /\ digitalTrigger')
                \/ (~draining /\ draining') )
              => (valvePower' = valvePower /\ TIMSK4' = TIMSK4)
        /\ (valveOpen /\ valveOpen' /\ valvePower = holdVoltage)
              => valvePower' = holdVoltage ]_vars

\* C10 witness: two sources are active and the output is at holdVoltage.
C10_TwoSourcesHolding ==
    /\ valveOpen /\ manualTrigger /\ digitalTrigger
    /\ valvePower = holdVoltage

C12_ManualFlagEqualsSample ==
    [][ TIMER2_COMPA => (manualTrigger' = ~pinManual) ]_vars

\* C12 witness: the settle check has run with the pin low and set the flag.
C12_ManualSettledPressed ==
    /\ manualTrigger /\ ~pinManual /\ "OCIE2A" \notin TIMSK2 /\ valveOpen

\* C13 (as stated): a panel settle check that samples the pin released (high)
\* while draining is true sets draining false and closes the valve if no
\* other source is active.
C13_ReleasedSampleEndsDrain ==
    [][ (TIMER2_COMPB /\ pinPanel /\ draining) =>
            /\ ~draining'
            /\ (~manualTrigger /\ ~digitalTrigger) => ~valveOpen' ]_vars

\* C13 (amended): the panel button toggles the drain.  A panel settle check
\* that samples the pin pressed (low) while draining is true sets draining
\* false and closes the valve if no other source is active; a check that
\* samples the pin released (high) changes no flag, counter or output.
C13_PressedSampleEndsDrain ==
    [][ /\ (TIMER2_COMPB /\ ~pinPanel /\ draining) =>
              /\ ~draining'
              /\ IF ~manualTrigger /\ ~digitalTrigger
                   THEN ~valveOpen' /\ valvePower' = 0
                   ELSE valveOpen' = valveOpen /\ valvePower' = valvePower
        /\ (TIMER2_COMPB /\ pinPanel) =>
              UNCHANGED << flagVars, valveOpen, valvePower, drainCycles, TIMSK1 >> ]_vars

\* C13 witness: a drain session that had run for one tick was ended by a
\* second press of the panel button (the pin is still low), closing the valve.
C13_DrainEndedByPress ==
    /\ ~draining /\ ~valveOpen /\ ~pinPanel /\ drainCycles = 1 /\ TIMSK2 = {}

C15_ExternalFlagEqualsLevel ==
    [][ INT5 => /\ digitalTrigger' = DigitalLevel(digitalMode, digitalPort, extLevel)
                /\ TIMSK2' = TIMSK2 ]_vars

\* C15 witness: INT5 has decoded a level that the sketch drives itself during
\* a calibration pulse while the external source is low.
C15_DecodedSyntheticHigh ==
    /\ digitalTrigger /\ digitalMode = "OUTPUT" /\ digitalPort /\ ~extLevel
    /\ "INTF5" \notin EIFR

\* C16: a watchdog expiry (the tick that clears draining) changes neither
\* manualTrigger nor digitalTrigger, and if one of them is true the valve
\* stays open and the output level is unchanged.
C16_ExpiryOnlyDrainSide ==
    [][ (draining /\ ~draining' /\ drainCycles' # drainCycles) =>
            /\ manualTrigger' = manualTrigger
            /\ digitalTrigger' = digitalTrigger
            /\ (manualTrigger \/ digitalTrigger) =>
                   (valveOpen /\ valveOpen' /\ valvePower' = valvePower) ]_vars

\* C16 witness: the watchdog has expired and the manual trigger alone holds
\* the valve open at the hold voltage.
C16_HeldByManualAfterExpiry ==
    /\ ~draining /\ drainCycles = DrainLimit + 1
    /\ manualTrigger /\ ~digitalTrigger /\ valveOpen /\ valvePower = holdVoltage

\* C17: draining becomes true only in the panel settle check, with the pin
\* sampled pressed and the valve closed; a settled press while the valve is
\* open and draining is false changes no flag, not the drain counter, not the
\* watchdog enable, not the output and not the hold timer.
C17_DrainStartsOnlyWhenClosed ==
    [][ /\ (~draining /\ draining') => (TIMER2_COMPB /\ ~pinPanel /\ ~valveOpen)
        /\ (TIMER2_COMPB /\ ~pinPanel /\ valveOpen /\ ~draining) =>
              UNCHANGED << flagVars, drainCycles, TIMSK1, valveOpen, valvePower,
                           TIMSK4 >> ]_vars

\* C17 witness: the panel button is held pressed and no settle check is
\* pending, while the digital trigger alone holds the valve open and no drain
\* session has been started.
C17_PressSettledWhileOpen ==
    /\ ~pinPanel /\ TIMSK2 = {} /\ pinManual
    /\ valveOpen /\ digitalTrigger /\ ~manualTrigger /\ ~draining

\* C18: a firing of the hold timer that finds the valve closed leaves the
\* output at 0 and valveOpen false, and leaves the timer disarmed.
C18_HoldFiringWhenClosed ==
    [][ (TIMER4_COMPA /\ ~valveOpen) =>
            /\ valvePower = 0 /\ valvePower' = 0
            /\ ~valveOpen'
            /\ "OCIE4A" \notin TIMSK4' ]_vars

\* C18 witness: a calibration pulse has ended and closed the valve while the
\* hold timer armed by its opening is still pending.
C18_ClosedBeforeHoldFires ==
    /\ ~valveOpen /\ valvePower = 0 /\ "OCIE4A" \in TIMSK4
    /\ digitalMode = "OUTPUT" /\ ~digitalPort /\ ~digitalTrigger

C20_LoopStoreKeepsHandlerUpdates ==
    [][ (pc = "writeTIMSK1" /\ pc' = "poll") =>
            TIMSK1' = TIMSK1 \cup {"OCIE1B"} ]_vars

\* C21: while inCalibration is true the settle checks of the manual trigger
\* and of the panel button change neither manualTrigger, draining, valveOpen
\* nor the output.
C21_InputsDisabledInCalibration ==
    [][ (inCalibration /\ (TIMER2_COMPA \/ TIMER2_COMPB)) =>
            UNCHANGED << manualTrigger, draining, valveOpen, valvePower >> ]_vars

\* C22: loop() is past the poll of a trial (reading the scale for the result
\* row) only when sequenceComplete is true; there is no other way out of the
\* poll, so without the release clock loop() stays in it.
C22_PastPollOnlyWhenComplete ==
    pc \in {"unitsOn", "unitsOff"} => sequenceComplete

\* C22 witness: loop() is in the poll, sequenceComplete is false and the
\* release clock is disabled, so that TIMER1_COMPB cannot fire.
C22_PollWithoutReleaseClock ==
    /\ pc = "poll" /\ ~sequenceComplete /\ "OCIE1B" \notin TIMSK1
    /\ "OCIE5A" \notin TIMSK5 /\ ~draining

\* C23: manualTrigger is changed only by the manual settle check,
\* digitalTrigger only by the INT5 handler, draining only by the panel settle
\* check or the watchdog tick.
C23_FlagsOwnEntryPoint ==
    [][ /\ (manualTrigger' # manualTrigger) => TIMER2_COMPA
        /\ (digitalTrigger' # digitalTrigger) => INT5
        /\ (draining' # draining) => (TIMER2_COMPB \/ TIMER1_COMPA(DrainLimit)) ]_vars

\* C23 witness: all three flags are true, and loop() is in a calibration
\* trial.
C23_AllFlagsSet ==
    /\ manualTrigger /\ digitalTrigger /\ draining /\ pc = "poll"

\* C24: a settled panel press while draining is true clears draining, disarms
\* the watchdog tick (OCIE1A) and closes the valve, output 0, exactly when
\* manualTrigger and digitalTrigger are both false.
C24_SecondPressEndsDrain ==
    [][ (TIMER2_COMPB /\ ~pinPanel /\ draining) =>
            /\ ~draining'
            /\ "OCIE1A" \notin TIMSK1'
            /\ IF ~manualTrigger /\ ~digitalTrigger
                 THEN ~valveOpen' /\ valvePower' = 0
                 ELSE valveOpen' /\ valvePower' = valvePower /\ valvePower' # 0 ]_vars

\* C24 witness: a drain session was ended by a second press after one tick
\* while the manual trigger holds the valve open.
C24_DrainEndedValveHeld ==
    /\ ~draining /\ ~pinPanel /\ drainCycles = 1 /\ "OCIE1A" \notin TIMSK1
    /\ manualTrigger /\ valveOpen /\ valvePower # 0 /\ TIMSK2 = {}

\* C25: when a trial has completed, releaseCount, which loop() reports,
\* equals the number of synthetic pulses asserted and deasserted in the trial.
C25_ReportedCountIsPulseCount ==
    (pc = "unitsOn") => releaseCount = pulses

\* C26: the LED is high if and only if valveOpen is true.
C26_LedMirrorsValve == LED <=> valveOpen

\* C30: whenever the valve is open with the output at hitVoltage the hold
\* timer is armed.
C30_HitImpliesHoldTimerArmed ==
    (valveOpen /\ valvePower = hitVoltage) => "OCIE4A" \in TIMSK4

\* C30 witness: a drain session has opened the valve: the output is at the
\* hit voltage and the hold timer is armed.
C30_HitPhaseOfDrain ==
    /\ valveOpen /\ valvePower = hitVoltage /\ draining /\ "OCIE4A" \in TIMSK4
    /\ ~manualTrigger /\ ~digitalTrigger

\* C27: the downgrade to the hold voltage is timed from the most recent
\* opening: whenever the valve is open at the hold voltage, a full hold
\* transition delay (HoldTicks steps of timer4) has passed since the valve
\* was last opened, also when it was closed and reopened during the hit phase.
C27_HoldTimedFromLastOpening ==
    (valveOpen /\ valvePower = holdVoltage) => hitTicks = HoldTicks

\* C28: sequenceComplete is never set while the synthetic trigger of the
\* trial is still asserted: in the step that raises the flag the pin is not
\* driven HIGH by the sketch and the pulse clock is disarmed.
C28_CompleteAfterLastPulse ==
    [][ (~sequenceComplete /\ sequenceComplete')
           => /\ "OCIE5A" \notin TIMSK5
              /\ ~(digitalMode = "OUTPUT" /\ digitalPort) ]_vars

\* C28 witness: a trial of two releases is complete; its one pulse was
\* asserted and deasserted and the release clock has matched again since.
C28_TrialOfTwoComplete ==
    /\ sequenceComplete /\ pc = "poll"
    /\ maxReleases = 2 /\ releaseCount = 2 /\ pulses = 1
    /\ maxTicks = MaxOpenTime
    /\ "OCIE5A" \notin TIMSK5 /\ "OCIE1B" \notin TIMSK1

C31_ManualFlagFollowsPin ==
    "OCIE2A" \notin TIMSK2 => (manualTrigger <=> ManualAsserted(pinManual))

\* C32: in every reachable state with draining true, drainCycles is at most
\* the limit of the watchdog; drainCycles is 0 when a drain session begins;
\* and a watchdog tick while draining is false leaves drainCycles as it was.
C32_DrainCyclesWithinLimit ==
    /\ [](draining => drainCycles <= DrainLimit)
    /\ [][ /\ (~draining /\ draining') => drainCycles' = 0
           /\ (TIMER1_COMPA(DrainLimit) /\ ~draining) => drainCycles' = drainCycles
         ]_vars

\* C32 witness: a drain session in which the watchdog has counted up to the
\* limit and is still armed.
C32_DrainingAtLimit ==
    /\ draining /\ drainCycles = DrainLimit /\ "OCIE1A" \in TIMSK1 /\ valveOpen

====
